---- MODULE Spec2Model ----
(***************************************************************************)
(* Model of materials/fuzzing/aflpp/main_stdin_persist_no_shared.c: an     *)
(* AFL++ persistent-mode harness.  main loops under __AFL_LOOP(1000); each *)
(* pass zero-fills input_buf, reads up to 100 bytes of standard input into *)
(* it, and hands buffer and byte count to check_buf, which aborts on the   *)
(* prefix "abc".                                                           *)
(*                                                                         *)
(* Bytes are their character codes.  Standard input is a byte stream fixed *)
(* at start together with a file offset; read(2) may deliver any non-empty *)
(* prefix of what is left (a short read), 0 at end of input, or fail (-1). *)
(***************************************************************************)
EXTENDS Integers, Sequences, FiniteSets

VARIABLES pc, input_buf, len, cycle_cnt, driver_runs, stdin, pos, ret

vars == <<pc, input_buf, len, cycle_cnt, driver_runs, stdin, pos, ret>>

----------------------------------------------------------------------------
(* Program constants *)

MAX_BUF_SIZE == 100
READ_COUNT == 100
AFL_LOOP_MAX == 1000
CHAR_a == 97
CHAR_b == 98
CHAR_c == 99

\* size_t is unsigned; SIZE_MAX is what -1 becomes when stored into it.  TLC
\* integers are 32 bits wide, so the model takes the largest value it can
\* represent: every comparison the program makes on len (> 0, > 1, > 2) and
\* the capacity comparison (<= 100) come out as for 2^64 - 1.
SIZE_MAX == 2147483647

----------------------------------------------------------------------------
(* Bounds of the model *)

MaxInput == 4
MaxRuns == 2
MaxLen == 4

\* Byte values the environment supplies: the three pattern bytes and 'x'.
Bytes == {CHAR_a, CHAR_b, CHAR_c, 120}

BufIndex == 0 .. (MAX_BUF_SIZE - 1)

Min(x, y) == IF x < y THEN x ELSE y

ABC == <<CHAR_a, CHAR_b, CHAR_c>>

\* Streams of standard input: every stream of at most MaxInput bytes, and one
\* longer than a full read (READ_COUNT bytes of 'x', then "abc").
ShortInputs == UNION {[1 .. n -> Bytes] : n \in 0 .. MaxInput}
LongInputs == {[i \in 1 .. READ_COUNT |-> 120] \o ABC}
Inputs == ShortInputs \cup LongInputs

\* input_buf is an uninitialized automatic array when main starts: its
\* content is whatever the stack held.
StackGarbage ==
    {[i \in BufIndex |-> 0],
     [i \in BufIndex |-> IF i < 3 THEN ABC[i + 1] ELSE 120]}

----------------------------------------------------------------------------
(* check_buf *)

\* TRUE iff check_buf(buf, buf_len) reaches abort(): the three nested ifs,
\* each a short-circuit && of a length test and a byte test.
CheckBuf_UngatedThird(buf, buf_len) ==
    IF buf_len > 0 /\ buf[0] = CHAR_a
    THEN IF buf_len > 1 /\ buf[1] = CHAR_b
         THEN buf[2] = CHAR_c
         ELSE FALSE
    ELSE FALSE

CheckBuf_OffByOne(buf, buf_len) ==
    IF buf_len > 0 /\ buf[0] = CHAR_a
    THEN IF buf_len > 1 /\ buf[1] = CHAR_b
         THEN IF buf_len > 3 /\ buf[2] = CHAR_c
              THEN TRUE
              ELSE FALSE
         ELSE FALSE
    ELSE FALSE

CheckBuf_NoSecond(buf, buf_len) ==
    IF buf_len > 0 /\ buf[0] = CHAR_a
    THEN IF buf_len > 1
         THEN IF buf_len > 2 /\ buf[2] = CHAR_c
              THEN TRUE
              ELSE FALSE
         ELSE FALSE
    ELSE FALSE

CheckBufAborts(buf, buf_len) ==
    IF buf_len > 0 /\ buf[0] = CHAR_a
    THEN IF buf_len > 1 /\ buf[1] = CHAR_b
         THEN IF buf_len > 2 /\ buf[2] = CHAR_c
              THEN TRUE
              ELSE FALSE
         ELSE FALSE
    ELSE FALSE

\* The indices of buf that check_buf(buf, buf_len) reads: buf[i] is evaluated
\* only when the length test left of it holds and the enclosing ifs were taken.
Inspected(buf, buf_len) ==
    (IF buf_len > 0 THEN {0} ELSE {})
    \cup (IF buf_len > 0 /\ buf[0] = CHAR_a /\ buf_len > 1 THEN {1} ELSE {})
    \cup (IF buf_len > 0 /\ buf[0] = CHAR_a /\ buf_len > 1 /\ buf[1] = CHAR_b
             /\ buf_len > 2
          THEN {2} ELSE {})

----------------------------------------------------------------------------
(* main *)

\* __AFL_LOOP(1000): nonzero for at most AFL_LOOP_MAX passes, and for no more
\* passes than the driver supplies test cases (one when the binary runs
\* outside the fuzzer).
AflLoop_NoLimit(cnt, runs) == cnt < runs

AflLoop(cnt, runs) == cnt < AFL_LOOP_MAX /\ cnt < runs

\* memset(input_buf, 0, MAX_BUF_SIZE)
Zeroed_Skip(buf) == buf

Zeroed_Partial(buf) == [i \in BufIndex |-> IF i < 8 THEN 0 ELSE buf[i]]

Zeroed(buf) == [i \in BufIndex |-> IF i < MAX_BUF_SIZE THEN 0 ELSE buf[i]]

\* The results read(0, input_buf, 100) can have at file offset p of stream s.
ReadResults(s, p) ==
    {-1} \cup (IF p >= Len(s) THEN {0} ELSE 1 .. Min(READ_COUNT, Len(s) - p))

\* The buffer after read delivered r bytes from offset p of stream s.
ReadInto(buf, s, p, r) ==
    [i \in BufIndex |-> IF i < r THEN s[p + i + 1] ELSE buf[i]]

\* size_t len = <ssize_t r>: conversion to unsigned.
ToSizeT(r) == IF r < 0 THEN SIZE_MAX + (r + 1) ELSE r

Init ==
    /\ pc = "loop"
    /\ input_buf \in StackGarbage
    /\ len = 0
    /\ cycle_cnt = 0
    /\ driver_runs \in 1 .. MaxRuns
    /\ stdin \in Inputs
    /\ pos = 0
    /\ ret = -1

\* while (__AFL_LOOP(1000)) taken
LoopEnter ==
    /\ pc = "loop"
    /\ AflLoop(cycle_cnt, driver_runs)
    /\ cycle_cnt' = cycle_cnt + 1
    /\ pc' = "memset"
    /\ UNCHANGED <<input_buf, len, driver_runs, stdin, pos, ret>>

\* while (__AFL_LOOP(1000)) not taken; return 0
LoopExit_Status1 ==
    /\ pc = "loop"
    /\ ~AflLoop(cycle_cnt, driver_runs)
    /\ pc' = "returned"
    /\ ret' = 1
    /\ UNCHANGED <<input_buf, len, cycle_cnt, driver_runs, stdin, pos>>

LoopExit ==
    /\ pc = "loop"
    /\ ~AflLoop(cycle_cnt, driver_runs)
    /\ pc' = "returned"
    /\ ret' = 0
    /\ UNCHANGED <<input_buf, len, cycle_cnt, driver_runs, stdin, pos>>

Memset ==
    /\ pc = "memset"
    /\ input_buf' = Zeroed(input_buf)
    /\ pc' = "read"
    /\ UNCHANGED <<len, cycle_cnt, driver_runs, stdin, pos, ret>>

Read ==
    /\ pc = "read"
    /\ \E r \in ReadResults(stdin, pos) :
          /\ input_buf' = ReadInto(input_buf, stdin, pos, r)
          /\ pos' = IF r > 0 THEN pos + r ELSE pos
          /\ len' = ToSizeT(r)
    /\ pc' = "check"
    /\ UNCHANGED <<cycle_cnt, driver_runs, stdin, ret>>

\* check_buf(input_buf, len): abort() ends the process, otherwise the call
\* returns and control is back at the loop test.
CheckBuf ==
    /\ pc = "check"
    /\ pc' = IF CheckBufAborts(input_buf, len) THEN "aborted" ELSE "loop"
    /\ UNCHANGED <<input_buf, len, cycle_cnt, driver_runs, stdin, pos, ret>>

Next == LoopEnter \/ LoopExit \/ Memset \/ Read \/ CheckBuf

Spec == Init /\ [][Next]_vars

----------------------------------------------------------------------------
(* check_buf as a function of its arguments: it is entered with every      *)
(* buffer whose first three bytes range over Bytes and 0, and with every   *)
(* length up to MaxLen, the capacity and SIZE_MAX; main then carries on.   *)

CheckBufs ==
    {[i \in BufIndex |-> IF i < 3 THEN p[i] ELSE 0] :
        p \in [0 .. 2 -> Bytes \cup {0}]}

CheckLens == (0 .. MaxLen) \cup {MAX_BUF_SIZE, SIZE_MAX}

InitCheck ==
    /\ pc = "check"
    /\ input_buf \in CheckBufs
    /\ len \in CheckLens
    /\ cycle_cnt = 1
    /\ driver_runs \in 1 .. MaxRuns
    /\ stdin \in {<<>>, ABC}
    /\ pos = 0
    /\ ret = -1

SpecCheck == InitCheck /\ [][Next]_vars

----------------------------------------------------------------------------
(* The whole loop: the driver supplies one test case, or more than the     *)
(* loop's limit.  The program is sequential and every read returns, so a   *)
(* step that is possible is eventually taken.                              *)

LoopInputs == {<<>>, ABC, <<CHAR_a, CHAR_b, 120>>, <<120>> \o ABC}

InitLoop ==
    /\ pc = "loop"
    /\ input_buf \in StackGarbage
    /\ len = 0
    /\ cycle_cnt = 0
    /\ driver_runs \in {1, AFL_LOOP_MAX + 1}
    /\ stdin \in LoopInputs
    /\ pos = 0
    /\ ret = -1

SpecLoop == InitLoop /\ [][Next]_vars /\ WF_vars(Next)

----------------------------------------------------------------------------
(* Properties *)

\* Bytes delivered by the read of the current pass (none when it failed).
Delivered == IF len <= READ_COUNT THEN len ELSE 0

BufStartsABC ==
    input_buf[0] = CHAR_a /\ input_buf[1] = CHAR_b /\ input_buf[2] = CHAR_c

\* C1: in any pass where read delivered at least 3 bytes and the buffer
\* begins 'a','b','c', check_buf aborts: the step after the check is the
\* abort, main's return value is never set, and an aborted process stays
\* aborted.
C1_AbcChunkAborts ==
    [][/\ (pc = "check" /\ Delivered >= 3 /\ BufStartsABC)
            => (pc' = "aborted" /\ ret' = -1)
       /\ (pc = "aborted" => pc' = "aborted")]_vars

C1_Witness ==
    pc = "aborted" /\ Delivered >= 3 /\ BufStartsABC /\ ret = -1

\* C3: when the byte count passed to check_buf is 0, 1 or 2, check_buf
\* returns without aborting, whatever the buffer holds.
C3_ShortNeverAborts ==
    [][(pc = "check" /\ len \in {0, 1, 2}) => pc' = "loop"]_vars

C3_Witness ==
    pc = "loop" /\ cycle_cnt = 1 /\ len = 2 /\ BufStartsABC

\* C4 as claimed: check_buf aborts exactly when byte 0 is 'a', byte 1 is 'b'
\* if len > 1, and byte 2 is 'c' if len > 2.
C4_AsClaimed ==
    [][pc = "check" =>
         ((pc' = "aborted") <=>
            (/\ input_buf[0] = CHAR_a
             /\ (len > 1 => input_buf[1] = CHAR_b)
             /\ (len > 2 => input_buf[2] = CHAR_c)))]_vars

\* C4 amended: check_buf aborts exactly when len > 2 and bytes 0, 1, 2 are
\* 'a', 'b', 'c'; for every other (buf, len) it returns with no effect.
C4_AbortsIffThreePresent ==
    [][pc = "check" =>
         /\ (pc' = "aborted") <=> (len > 2 /\ BufStartsABC)
         /\ pc' # "aborted" => pc' = "loop"
         /\ UNCHANGED <<input_buf, len, cycle_cnt, driver_runs, stdin, pos, ret>>]_vars

C4_Witness ==
    pc = "aborted" /\ len = 3 /\ BufStartsABC /\ cycle_cnt = 1 /\ pos = 0

\* C5: the byte count stored from read and passed to check_buf never exceeds
\* the buffer capacity.
C5_LenWithinCapacity ==
    pc = "check" => len <= MAX_BUF_SIZE

StreamStartsABC == Len(stdin) >= 3 /\ SubSeq(stdin, 1, 3) = ABC

StreamContainsABC ==
    \E k \in 1 .. Len(stdin) : k + 2 <= Len(stdin) /\ SubSeq(stdin, k, k + 2) = ABC

\* The bytes of standard input that the read of the current pass delivered.
Chunk == SubSeq(stdin, pos - Delivered + 1, pos)

ChunkStartsABC == Delivered >= 3 /\ SubSeq(Chunk, 1, 3) = ABC

ZeroBuf == [i \in BufIndex |-> 0]

\* C2 as claimed: a standard-input stream that does not start with "abc"
\* never makes the process abort, however it is split into reads.
C2_AsClaimed ==
    ~StreamStartsABC => pc # "aborted"

\* C2 amended: the process aborts only in a pass whose own read delivered a
\* chunk beginning "abc"; a stream that holds "abc" nowhere (such as "abx")
\* never aborts, and a process that leaves the loop returns 0.
C2_AbortOnlyOnAbcChunk ==
    /\ pc = "aborted" => ChunkStartsABC
    /\ ~StreamContainsABC => pc # "aborted"
    /\ pc = "returned" => ret = 0

C2_Witness ==
    /\ pc = "returned" /\ ret = 0
    /\ stdin = <<CHAR_a, CHAR_b, 120>> /\ pos = 3 /\ len = 3

\* C6 as claimed: once a read has returned 0 bytes the loop runs no further
\* pass and the process exits with status 0.
C6_AsClaimed ==
    [][(pc = "loop" /\ cycle_cnt > 0 /\ len = 0)
          => (pc' = "returned" /\ ret' = 0)]_vars

\* C6 amended: a pass whose read returned 0 bytes does not abort and goes
\* back to the loop test; the loop ends only when __AFL_LOOP yields zero (no
\* further test case, or AFL_LOOP_MAX passes done), so further passes may
\* follow an empty read, and the process then exits with status 0.
C6_EmptyReadBackToLoopTest ==
    [][/\ (pc = "check" /\ len = 0) => pc' = "loop"
       /\ (pc = "loop" /\ cycle_cnt > 0 /\ len = 0) =>
             /\ (pc' = "returned") <=>
                   (cycle_cnt >= driver_runs \/ cycle_cnt >= AFL_LOOP_MAX)
             /\ pc' = "returned" => ret' = 0
             /\ pc' # "returned" => pc' = "memset"]_vars

C6_Witness ==
    /\ pc = "returned" /\ ret = 0
    /\ stdin = <<>> /\ len = 0 /\ cycle_cnt = 2

\* C7: every execution ends, by abort or by return; the loop body runs at
\* most 1000 times; a return is with status 0 and an abort happens only in a
\* pass whose chunk matched, so an execution without a match returns 0.
C7_Terminates ==
    /\ <>(pc \in {"returned", "aborted"})
    /\ [](cycle_cnt <= AFL_LOOP_MAX)
    /\ [](pc = "returned" => ret = 0)
    /\ [](pc = "aborted" => (Delivered >= 3 /\ BufStartsABC))

C7_Witness ==
    pc = "returned" /\ ret = 0 /\ cycle_cnt = AFL_LOOP_MAX

\* C8: a pass whose read failed (len holds SIZE_MAX) ends like a pass whose
\* read returned 0: the buffer is all zero, check_buf does not abort, and
\* control is back at the loop test, whatever earlier passes read.
C8_FailedReadLikeEmptyRead ==
    [][(pc = "check" /\ (len = 0 \/ len = SIZE_MAX))
          => (input_buf = ZeroBuf /\ pc' = "loop")]_vars

C8_Witness ==
    pc = "loop" /\ len = SIZE_MAX /\ cycle_cnt = 2 /\ pos > 0

\* C9: at every call of check_buf the positions the pass's read did not
\* write hold 0 and the others hold the bytes it delivered; within a pass
\* the order is zero-fill, then read, then check.
C9_BufferReinitialized ==
    [][/\ pc' = "check" =>
             \A i \in BufIndex :
                input_buf'[i] =
                   IF i < (IF len' <= READ_COUNT THEN len' ELSE 0)
                   THEN stdin[pos + i + 1]
                   ELSE 0
       /\ pc' = "memset" => pc = "loop"
       /\ pc = "memset" => (pc' = "read" /\ input_buf' = ZeroBuf)
       /\ pc' = "read" => pc = "memset"
       /\ pc = "read" => pc' = "check"
       /\ pc' = "check" => pc = "read"]_vars

C9_Witness ==
    /\ pc = "check" /\ cycle_cnt = 2 /\ len = 1 /\ pos = 3
    /\ input_buf[0] = CHAR_c /\ input_buf[1] = 0

\* C10: a pass aborts iff its own read delivered at least 3 bytes beginning
\* 'a','b','c' (so "abc" split over two reads never aborts), and check_buf
\* reads index i only when i < 3 and i < len, inside the buffer.
C10_PerChunkDecision ==
    [][pc = "check" =>
         /\ (pc' = "aborted") <=> ChunkStartsABC
         /\ \A i \in Inspected(input_buf, len) :
               i \in BufIndex /\ i < 3 /\ i < len]_vars

C10_Witness ==
    /\ pc = "returned" /\ stdin = ABC /\ pos = 3
    /\ cycle_cnt = 2 /\ len = 1 /\ input_buf[0] = CHAR_c

====
